---- MODULE Spec2Model ----
(***************************************************************************)
(* State-machine model of the StellarHTLC contract                         *)
(* (contracts/src/lib.rs): the four entry points initiate_swap, withdraw,  *)
(* refund and get_swap over the host's persistent and instance storage,    *)
(* the token balances the contract moves, the events of an invocation and  *)
(* the ledger sequence.                                                    *)
(***************************************************************************)
EXTENDS Integers, Sequences, FiniteSets, TLC

VARIABLES
    seq,         \* env.ledger().sequence()
    persistent,  \* env.storage().persistent(): DataKey::Swap(id) -> SwapOrder
    instance,    \* env.storage().instance(): DataKey::Nonce(address) -> u32
    bal,         \* token balances: asset -> holder -> amount
    events,      \* events published by the last invocation
    last,        \* the last invocation: entry point, swap id, panic message
    ttl,         \* live-until ledger of each persistent entry
    payouts,     \* history: per swap id, successful withdraw/refund calls
    created      \* history: per swap id, ledger sequence of the last creation

vars == <<seq, persistent, instance, bal, events, last, ttl, payouts, created>>

-----------------------------------------------------------------------------
(* Program constants *)

DAY_IN_LEDGERS == 17280

\* The literal of the lower timelock check, `sequence() + 120`.
MIN_TIMELOCK_LEDGERS == 120

(* Bounds of the model *)

MaxSeq == 242
MaxNonce == 2

\* Host setting: the ledgers a newly written persistent entry lives.
MinPersistentTtl == 4096

-----------------------------------------------------------------------------
(* Identities, assets, digests *)

\* env.current_contract_address()
CONTRACT == "contract"

Users == {"alice", "bob"}

Addresses == Users \cup {CONTRACT}

Participants == {CONTRACT, "alice"}

Assets == {"XLM"}

Preimages == {"s1", "s2"}

\* env.crypto().sha256: distinct preimages have distinct digests.
sha256(preimage) ==
    CASE preimage = "s1" -> "h1"
      [] preimage = "s2" -> "h2"

Hashlocks == {"h1", "h2"}

Amounts == {-1, 0, 1, 2}

\* Token balances at deployment, the same for every asset: the contract
\* holds one unit, so an escrow of two units cannot be funded.
InitialBalance == [h \in Addresses |-> IF h = CONTRACT THEN 1 ELSE 2]

\* Timelocks an initiate_swap call is tried with, as offsets from the
\* current sequence: the last rejected as too short, the first accepted,
\* the first rejected as too long.
TimelockOffsets ==
    {MIN_TIMELOCK_LEDGERS, MIN_TIMELOCK_LEDGERS + 1, DAY_IN_LEDGERS}

AdvanceSteps == {MIN_TIMELOCK_LEDGERS + 1}

\* The three pass-through strings of the counterpart chain's leg.
EthMeta == [destination : {"0xdest"}, amount : {"5"}, token : {"0xtoken"}]

-----------------------------------------------------------------------------
(* Host collaborators *)

None == "None"

TransferFailed == "transfer failed"

\* The environment an invocation runs against; writes counts its
\* storage().set calls.
Env(s, p, i, b, t) ==
    [seq |-> s, persistent |-> p, instance |-> i, bal |-> b, ttl |-> t,
     events |-> <<>>, writes |-> 0]

\* assert!/expect failing: the invocation stops at this point.
Panic(e, msg) == [err |-> msg, env |-> e, ret |-> <<>>]

\* The invocation returns ret.
Return(e, ret) == [err |-> None, env |-> e, ret |-> <<ret>>]

\* storage().instance().get(&nonce_key).unwrap_or(0)
NonceGet(inst, addr) == IF addr \in DOMAIN inst THEN inst[addr] ELSE 0

\* storage().set(&key, &value) on a keyed store
StoreSet(store, key, value) ==
    [k \in DOMAIN store \cup {key} |-> IF k = key THEN value ELSE store[k]]

\* token::Client::transfer(from, to, amount) on one asset's balances; the
\* contract is the invoker, so a transfer from its own address is authorized.
TransferOk(b, from, amount) == amount >= 0 /\ b[from] >= amount

TokenTransfer(b, from, to, amount) ==
    [[b EXCEPT ![from] = @ - amount] EXCEPT ![to] = @ + amount]

\* storage().persistent().set: a new entry lives MinPersistentTtl ledgers,
\* the current one included; a rewritten entry keeps its live-until ledger.
TtlOnSet(t, key, s) ==
    IF key \in DOMAIN t THEN t ELSE StoreSet(t, key, s + MinPersistentTtl - 1)

\* storage().persistent().extend_ttl(&key, threshold, extend_to): the entry's
\* live-until ledger becomes sequence + extend_to when its remaining ledgers
\* are at most threshold, and is left alone otherwise.
extend_ttl(t, key, s, threshold, extend_to) ==
    IF t[key] - s <= threshold /\ s + extend_to > t[key]
    THEN [t EXCEPT ![key] = s + extend_to]
    ELSE t

\* storage().persistent().has: the entry exists and is not past its
\* live-until ledger.
PersistentHas(e, key) == key \in DOMAIN e.persistent /\ e.ttl[key] >= e.seq

\* env.events().publish(topics, data)
Publish(e, topics, data) ==
    [e EXCEPT !.events = Append(@, [topics |-> topics, data |-> data])]

\* Variant: the writes made before a panic stay.
Commit_NoRollback(pre, r) == r.env

\* Variant: a panic undoes the token movements only.
Commit_KeepStorage(pre, r) ==
    IF r.err = None THEN r.env ELSE [r.env EXCEPT !.bal = pre.bal]

\* A panicking invocation is rolled back by the host; a returning one commits.
Commit(pre, r) == IF r.err = None THEN r.env ELSE pre

-----------------------------------------------------------------------------
(* initiate_swap *)

AmountOk(amount) == amount > 0

\* Variant: the lower check admits the boundary.
TimelockLongEnough_Inclusive(s, timelock) ==
    timelock >= s + MIN_TIMELOCK_LEDGERS

TimelockLongEnough(s, timelock) == timelock > s + MIN_TIMELOCK_LEDGERS

TimelockShortEnough(s, timelock) == timelock < s + DAY_IN_LEDGERS

\* let initiator = env.current_contract_address();
Initiator(caller) == CONTRACT

SwapOrder(initiator, participant, asset, amount, hashlock, timelock, meta) ==
    [initiator |-> initiator,
     participant |-> participant,
     asset |-> asset,
     amount |-> amount,
     hashlock |-> hashlock,
     timelock |-> timelock,
     withdrawn |-> FALSE,
     refunded |-> FALSE,
     ethereum_destination |-> meta.destination,
     ethereum_amount |-> meta.amount,
     ethereum_token |-> meta.token]

\* swap_id = hashlock.clone()
SwapId(hashlock, nonce) == hashlock

\* Variant: the event is published before the token transfer.
initiate_swap_EventFirst(e, caller, participant, asset, amount, hashlock, timelock, meta) ==
    LET initiator == Initiator(caller)
    IN
    IF ~AmountOk(amount) THEN Panic(e, "Amount must be greater than 0")
    ELSE IF ~TimelockLongEnough(e.seq, timelock)
    THEN Panic(e, "Timelock too short")
    ELSE IF ~TimelockShortEnough(e.seq, timelock)
    THEN Panic(e, "Timelock too long")
    ELSE
    LET nonce == NonceGet(e.instance, initiator)
        e1 == [e EXCEPT !.instance = StoreSet(@, initiator, nonce + 1),
                        !.writes = @ + 1]
        swap_id == SwapId(hashlock, nonce)
        swap_order == SwapOrder(initiator, participant, asset, amount,
                                hashlock, timelock, meta)
        e2 == [e1 EXCEPT !.persistent = StoreSet(@, swap_id, swap_order),
                         !.ttl = TtlOnSet(@, swap_id, e.seq),
                         !.writes = @ + 1]
        e3 == [e2 EXCEPT !.ttl = extend_ttl(@, swap_id, e.seq, 0,
                                            timelock - e.seq + 1000)]
        e4 == Publish(e3, <<"swap_init", swap_id>>,
                      <<initiator, participant, asset, amount, hashlock,
                        timelock>>)
    IN
    IF ~TransferOk(e4.bal[asset], initiator, amount)
    THEN Panic(e4, TransferFailed)
    ELSE Return([e4 EXCEPT !.bal[asset] =
                     TokenTransfer(@, initiator, CONTRACT, amount)],
                swap_id)

initiate_swap(e, caller, participant, asset, amount, hashlock, timelock, meta) ==
    LET initiator == Initiator(caller)
    IN
    IF ~AmountOk(amount) THEN Panic(e, "Amount must be greater than 0")
    ELSE IF ~TimelockLongEnough(e.seq, timelock)
    THEN Panic(e, "Timelock too short")
    ELSE IF ~TimelockShortEnough(e.seq, timelock)
    THEN Panic(e, "Timelock too long")
    ELSE
    LET nonce == NonceGet(e.instance, initiator)
        e1 == [e EXCEPT !.instance = StoreSet(@, initiator, nonce + 1),
                        !.writes = @ + 1]
        swap_id == SwapId(hashlock, nonce)
        swap_order == SwapOrder(initiator, participant, asset, amount,
                                hashlock, timelock, meta)
        e2 == [e1 EXCEPT !.persistent = StoreSet(@, swap_id, swap_order),
                         !.ttl = TtlOnSet(@, swap_id, e.seq),
                         !.writes = @ + 1]
        e3 == [e2 EXCEPT !.ttl = extend_ttl(@, swap_id, e.seq, 0,
                                            timelock - e.seq + 1000)]
    IN
    IF ~TransferOk(e3.bal[asset], initiator, amount)
    THEN Panic(e3, TransferFailed)
    ELSE
    LET e4 == [e3 EXCEPT !.bal[asset] =
                   TokenTransfer(@, initiator, CONTRACT, amount)]
    IN Return(Publish(e4, <<"swap_init", swap_id>>,
                      <<initiator, participant, asset, amount, hashlock,
                        timelock>>),
              swap_id)

-----------------------------------------------------------------------------
(* withdraw *)

\* assert_eq!(env.current_contract_address(), swap.participant, ..)
WithdrawCallerOk(caller, swap) == CONTRACT = swap.participant

\* Variant: withdraw validates only its own flag.
SettledError_WithdrawnOnly(swap) ==
    IF swap.withdrawn THEN "Already withdrawn" ELSE None

\* assert!(!swap.withdrawn, ..); assert!(!swap.refunded, ..)
SettledError(swap) ==
    IF swap.withdrawn THEN "Already withdrawn"
    ELSE IF swap.refunded THEN "Already refunded"
    ELSE None

WithdrawTimeOk(s, swap) == s < swap.timelock

PreimageOk(preimage, swap) == sha256(preimage) = swap.hashlock

withdraw(e, caller, swap_id, preimage) ==
    IF ~PersistentHas(e, swap_id) THEN Panic(e, "Swap does not exist")
    ELSE
    LET swap == e.persistent[swap_id]
    IN
    IF ~WithdrawCallerOk(caller, swap) THEN Panic(e, "Not swap participant")
    ELSE IF SettledError(swap) # None THEN Panic(e, SettledError(swap))
    ELSE IF ~WithdrawTimeOk(e.seq, swap) THEN Panic(e, "Timelock expired")
    ELSE IF ~PreimageOk(preimage, swap) THEN Panic(e, "Invalid preimage")
    ELSE
    LET settled == [swap EXCEPT !.withdrawn = TRUE]
        e1 == [e EXCEPT !.persistent = StoreSet(@, swap_id, settled),
                        !.writes = @ + 1]
    IN
    IF ~TransferOk(e1.bal[swap.asset], CONTRACT, swap.amount)
    THEN Panic(e1, TransferFailed)
    ELSE
    LET e2 == [e1 EXCEPT !.bal[swap.asset] =
                   TokenTransfer(@, CONTRACT, swap.participant, swap.amount)]
    IN Return(Publish(e2, <<"withdraw", swap_id>>, preimage), "()")

-----------------------------------------------------------------------------
(* refund *)

\* assert_eq!(env.current_contract_address(), swap.initiator, ..)
RefundCallerOk(caller, swap) == CONTRACT = swap.initiator

\* Variant: refund validates only its own flag.
RefundSettledError_OwnFlag(swap) ==
    IF swap.refunded THEN "Already refunded" ELSE None

\* assert!(!swap.withdrawn, ..); assert!(!swap.refunded, ..)
RefundSettledError(swap) == SettledError(swap)

RefundTimeOk(s, swap) == s >= swap.timelock

\* Variant: the record is written before the timelock is validated.
refund_WriteFirst(e, caller, swap_id) ==
    IF ~PersistentHas(e, swap_id) THEN Panic(e, "Swap does not exist")
    ELSE
    LET swap == e.persistent[swap_id]
        settled == [swap EXCEPT !.refunded = TRUE]
        e1 == [e EXCEPT !.persistent = StoreSet(@, swap_id, settled),
                        !.writes = @ + 1]
    IN
    IF ~RefundCallerOk(caller, swap) THEN Panic(e, "Not swap initiator")
    ELSE IF RefundSettledError(swap) # None
    THEN Panic(e, RefundSettledError(swap))
    ELSE IF ~RefundTimeOk(e.seq, swap) THEN Panic(e1, "Timelock not expired")
    ELSE IF ~TransferOk(e1.bal[swap.asset], CONTRACT, swap.amount)
    THEN Panic(e1, TransferFailed)
    ELSE
    LET e2 == [e1 EXCEPT !.bal[swap.asset] =
                   TokenTransfer(@, CONTRACT, swap.initiator, swap.amount)]
    IN Return(Publish(e2, <<"refund", swap_id>>, swap.initiator), "()")

refund(e, caller, swap_id) ==
    IF ~PersistentHas(e, swap_id) THEN Panic(e, "Swap does not exist")
    ELSE
    LET swap == e.persistent[swap_id]
    IN
    IF ~RefundCallerOk(caller, swap) THEN Panic(e, "Not swap initiator")
    ELSE IF RefundSettledError(swap) # None
    THEN Panic(e, RefundSettledError(swap))
    ELSE IF ~RefundTimeOk(e.seq, swap) THEN Panic(e, "Timelock not expired")
    ELSE
    LET settled == [swap EXCEPT !.refunded = TRUE]
        e1 == [e EXCEPT !.persistent = StoreSet(@, swap_id, settled),
                        !.writes = @ + 1]
    IN
    IF ~TransferOk(e1.bal[swap.asset], CONTRACT, swap.amount)
    THEN Panic(e1, TransferFailed)
    ELSE
    LET e2 == [e1 EXCEPT !.bal[swap.asset] =
                   TokenTransfer(@, CONTRACT, swap.initiator, swap.amount)]
    IN Return(Publish(e2, <<"refund", swap_id>>, swap.initiator), "()")

-----------------------------------------------------------------------------
(* get_swap *)

get_swap(e, caller, swap_id) ==
    IF ~PersistentHas(e, swap_id) THEN Panic(e, "Swap does not exist")
    ELSE Return(e, e.persistent[swap_id])

-----------------------------------------------------------------------------
(* The contract as a state machine: one action per invocation *)

Digests == {sha256(p) : p \in Preimages}

CurEnv == Env(seq, persistent, instance, bal, ttl)

Call(op, swap_id, r) == [op |-> op, swap_id |-> swap_id, err |-> r.err]

\* The host applies the outcome of an invocation.
Apply(c) ==
    /\ persistent' = c.persistent
    /\ instance' = c.instance
    /\ bal' = c.bal
    /\ ttl' = c.ttl
    /\ events' = c.events

Init ==
    /\ seq = 0
    /\ persistent = <<>>
    /\ instance = <<>>
    /\ bal = [a \in Assets |-> InitialBalance]
    /\ events = <<>>
    /\ last = [op |-> "deploy", swap_id |-> "h1", err |-> None]
    /\ ttl = <<>>
    /\ payouts = [id \in Digests |-> 0]
    /\ created = <<>>

InitiateSwap(caller, participant, asset, amount, hashlock, timelock, meta) ==
    /\ NonceGet(instance, Initiator(caller)) < MaxNonce
    /\ LET r == initiate_swap(CurEnv, caller, participant, asset, amount,
                              hashlock, timelock, meta)
       IN /\ Apply(Commit(CurEnv, r))
          /\ last' = Call("initiate_swap", hashlock, r)
          /\ created' = IF r.err = None
                        THEN StoreSet(created, hashlock, seq)
                        ELSE created
    /\ UNCHANGED <<seq, payouts>>

Withdraw(caller, swap_id, preimage) ==
    /\ LET r == withdraw(CurEnv, caller, swap_id, preimage)
       IN /\ Apply(Commit(CurEnv, r))
          /\ last' = Call("withdraw", swap_id, r)
          /\ payouts' = IF r.err = None
                        THEN [payouts EXCEPT ![swap_id] = @ + 1]
                        ELSE payouts
    /\ UNCHANGED <<seq, created>>

Refund(caller, swap_id) ==
    /\ LET r == refund(CurEnv, caller, swap_id)
       IN /\ Apply(Commit(CurEnv, r))
          /\ last' = Call("refund", swap_id, r)
          /\ payouts' = IF r.err = None
                        THEN [payouts EXCEPT ![swap_id] = @ + 1]
                        ELSE payouts
    /\ UNCHANGED <<seq, created>>

GetSwap(caller, swap_id) ==
    /\ LET r == get_swap(CurEnv, caller, swap_id)
       IN /\ Apply(Commit(CurEnv, r))
          /\ last' = Call("get_swap", swap_id, r)
    /\ UNCHANGED <<seq, payouts, created>>

\* The ledger closes: the sequence only grows.
AdvanceLedger(d) ==
    /\ seq + d <= MaxSeq
    /\ seq' = seq + d
    /\ UNCHANGED <<persistent, instance, bal, events, last, ttl, payouts,
                   created>>

Next ==
    \/ \E caller \in Users, participant \in Participants, asset \in Assets,
          amount \in Amounts, hashlock \in Hashlocks,
          offset \in TimelockOffsets, meta \in EthMeta :
           InitiateSwap(caller, participant, asset, amount, hashlock,
                        seq + offset, meta)
    \/ \E caller \in Users, swap_id \in Digests, preimage \in Preimages :
           Withdraw(caller, swap_id, preimage)
    \/ \E caller \in Users, swap_id \in Digests : Refund(caller, swap_id)
    \/ \E caller \in Users, swap_id \in Digests : GetSwap(caller, swap_id)
    \/ \E d \in AdvanceSteps : AdvanceLedger(d)

Spec == Init /\ [][Next]_vars

-----------------------------------------------------------------------------
(* Properties *)

Open(swap) == ~swap.withdrawn /\ ~swap.refunded

Settled(swap) == swap.withdrawn \/ swap.refunded

AlreadySettled == {"Already withdrawn", "Already refunded"}

\* Every timelock offset of interest, the last accepted one included.
AllOffsets == TimelockOffsets \cup {DAY_IN_LEDGERS - 1}

\* C1: no stored SwapOrder has withdrawn and refunded both true.
C1_NeverWithdrawnAndRefunded ==
    \A id \in DOMAIN persistent :
        ~(persistent[id].withdrawn /\ persistent[id].refunded)

\* One swap has been withdrawn and another refunded.
C1_Witness ==
    \E a \in DOMAIN persistent, b \in DOMAIN persistent :
        /\ persistent[a].withdrawn
        /\ persistent[b].refunded
        /\ payouts[a] >= 1
        /\ payouts[b] >= 1

\* C2: once the record under a swap id is withdrawn or refunded, no step
\* changes any field of the record stored under that id.
C2_SettledRecordImmutable ==
    [][\A id \in DOMAIN persistent :
           Settled(persistent[id]) =>
               /\ id \in DOMAIN persistent'
               /\ persistent'[id] = persistent[id]]_vars

\* C3: per swap id, at most one withdraw or refund ever succeeds.
C3_AtMostOnePayout == \A id \in Digests : payouts[id] <= 1

\* C4: on an Open record, withdraw succeeds exactly when the preimage hashes
\* to the hashlock, the sequence is below the timelock and the caller is the
\* record's participant.
C4_WithdrawIff ==
    \A id \in DOMAIN persistent :
        Open(persistent[id]) =>
            \A caller \in Users, preimage \in Preimages :
                (withdraw(CurEnv, caller, id, preimage).err = None)
                <=> /\ sha256(preimage) = persistent[id].hashlock
                    /\ seq < persistent[id].timelock
                    /\ caller = persistent[id].participant

\* C5: on an Open record, refund succeeds exactly when the sequence has
\* reached the timelock and the caller is the record's initiator.
C5_RefundIff ==
    \A id \in DOMAIN persistent :
        Open(persistent[id]) =>
            \A caller \in Users :
                (refund(CurEnv, caller, id).err = None)
                <=> /\ seq >= persistent[id].timelock
                    /\ caller = persistent[id].initiator

\* The state a failed or returned invocation leaves behind.
Storage(e) == <<e.persistent, e.instance, e.bal>>

C7_InitiateEscrowsFromDepositor ==
    \A caller \in Users, p \in Participants, a \in Assets,
       amount \in Amounts, h \in Hashlocks, off \in AllOffsets,
       meta \in EthMeta :
        LET r == initiate_swap(CurEnv, caller, p, a, amount, h, seq + off,
                               meta)
            c == Commit(CurEnv, r)
        IN r.err = None =>
               /\ r.ret = <<h>>
               /\ h \in DOMAIN c.persistent
               /\ Open(c.persistent[h])
               /\ c.persistent[h].amount = amount
               /\ c.persistent[h].hashlock = h
               /\ c.persistent[h].timelock = seq + off
               /\ c.bal[a][caller] = bal[a][caller] - amount
               /\ c.bal[a][CONTRACT] = bal[a][CONTRACT] + amount

\* C8: initiate_swap panics and stores nothing when amount <= 0, when
\* timelock <= sequence + 120 and when timelock >= sequence + 17280; every
\* stored record has amount > 0 and a timelock strictly inside that window
\* of the sequence it was created at.
C8_InitiateValidatesInputs ==
    /\ \A caller \in Users, p \in Participants, a \in Assets,
          amount \in Amounts, h \in Hashlocks, off \in AllOffsets,
          meta \in EthMeta :
           LET r == initiate_swap(CurEnv, caller, p, a, amount, h, seq + off,
                                  meta)
               invalid == \/ amount <= 0
                          \/ off <= 120
                          \/ off >= 17280
           IN /\ amount <= 0 => r.err = "Amount must be greater than 0"
              /\ amount > 0 /\ off <= 120 => r.err = "Timelock too short"
              /\ amount > 0 /\ off >= 17280 => r.err = "Timelock too long"
              /\ invalid => Commit(CurEnv, r).persistent = persistent
              /\ ~invalid => r.err \in {None, TransferFailed}
    /\ \A id \in DOMAIN persistent :
           /\ persistent[id].amount > 0
           /\ persistent[id].timelock > created[id] + 120
           /\ persistent[id].timelock < created[id] + 17280

\* A swap is stored and the last call was refused for its timelock.
C8_Witness ==
    /\ persistent # <<>>
    /\ last.op = "initiate_swap"
    /\ last.err = "Timelock too short"

C10_SecondSettlementAlreadySettled ==
    \A id \in Digests :
        payouts[id] >= 1 =>
            \A caller \in Users :
                /\ refund(CurEnv, caller, id).err \in AlreadySettled
                /\ \A preimage \in Preimages :
                       withdraw(CurEnv, caller, id, preimage).err
                           \in AlreadySettled


\* C11 as stated: on a swap refunded at or after its timelock, a withdraw
\* with the correct preimage fails as expired.
C11_RefundedThenWithdrawExpired ==
    \A id \in DOMAIN persistent :
        persistent[id].refunded /\ seq >= persistent[id].timelock =>
            \A caller \in Users, preimage \in Preimages :
                sha256(preimage) = persistent[id].hashlock =>
                    withdraw(CurEnv, caller, id, preimage).err
                        = "Timelock expired"

\* C11 as amended: on a swap refunded at or after its timelock, a withdraw
\* with the correct preimage fails, never as expired: as already refunded
\* when the record's participant is the contract's address, and as not the
\* participant otherwise.
C11_RefundedThenWithdrawSettled ==
    \A id \in DOMAIN persistent :
        persistent[id].refunded /\ seq >= persistent[id].timelock =>
            \A caller \in Users, preimage \in Preimages :
                sha256(preimage) = persistent[id].hashlock =>
                    withdraw(CurEnv, caller, id, preimage).err =
                        IF persistent[id].participant = CONTRACT
                        THEN "Already refunded"
                        ELSE "Not swap participant"

\* A withdraw on a refunded swap has just been refused as already refunded.
C11_Witness ==
    /\ last.op = "withdraw"
    /\ last.err = "Already refunded"
    /\ last.swap_id \in DOMAIN persistent
    /\ persistent[last.swap_id].refunded
    /\ seq >= persistent[last.swap_id].timelock


\* C12: the timelock of the record stored under a swap id never changes
\* once the id has been created.
C12_TimelockFixed ==
    [][\A id \in DOMAIN persistent :
           /\ id \in DOMAIN persistent'
           /\ persistent'[id].timelock = persistent[id].timelock]_vars


\* What an invocation has published when it returns or panics: one event
\* with the given topics over the record and balances it leaves, or nothing.
OneEventAtEnd(r, topics) ==
    IF r.err = None
    THEN /\ Len(r.env.events) = 1
         /\ r.env.events[1].topics = topics
    ELSE r.env.events = <<>>

\* C13: a successful initiate_swap, withdraw or refund publishes exactly one
\* event (swap_init, withdraw, refund), and publishes it once its record
\* write and token transfer are done; an invocation that panics, wherever
\* it panics, has published nothing.
C13_OneEventAfterEffects ==
    /\ \A caller \in Users, p \in Participants, a \in Assets,
          amount \in Amounts, h \in Hashlocks, off \in AllOffsets,
          meta \in EthMeta :
           LET r == initiate_swap(CurEnv, caller, p, a, amount, h, seq + off,
                                  meta)
           IN /\ OneEventAtEnd(r, <<"swap_init", h>>)
              /\ r.err = None =>
                     /\ h \in DOMAIN r.env.persistent
                     /\ Open(r.env.persistent[h])
                     /\ r.env.persistent[h].timelock = seq + off
    /\ \A caller \in Users, id \in Digests, preimage \in Preimages :
           LET r == withdraw(CurEnv, caller, id, preimage)
           IN /\ OneEventAtEnd(r, <<"withdraw", id>>)
              /\ r.err = None => r.env.persistent[id].withdrawn
    /\ \A caller \in Users, id \in Digests :
           LET r == refund(CurEnv, caller, id)
           IN /\ OneEventAtEnd(r, <<"refund", id>>)
              /\ r.err = None => r.env.persistent[id].refunded
    /\ last.op \in {"initiate_swap", "withdraw", "refund"} =>
           IF last.err = None
           THEN /\ Len(events) = 1
                /\ events[1].topics[2] = last.swap_id
           ELSE events = <<>>

\* A refund has succeeded and published its event.
C13_Witness ==
    /\ last.op = "refund"
    /\ last.err = None
    /\ Len(events) = 1
    /\ events[1].topics = <<"refund", last.swap_id>>
    /\ persistent[last.swap_id].refunded


\* The panics of the precondition checks: every panic but the transfer's.
CheckFailed(r) == r.err \notin {None, TransferFailed}

\* C14 as stated: every entry point makes at most one storage write, and
\* none when one of its checks fails.
C14_AtMostOneWrite ==
    /\ \A caller \in Users, p \in Participants, a \in Assets,
          amount \in Amounts, h \in Hashlocks, off \in AllOffsets,
          meta \in EthMeta :
           LET r == initiate_swap(CurEnv, caller, p, a, amount, h, seq + off,
                                  meta)
           IN r.env.writes <= 1 /\ (CheckFailed(r) => r.env.writes = 0)
    /\ \A caller \in Users, id \in Digests, preimage \in Preimages :
           LET r == withdraw(CurEnv, caller, id, preimage)
           IN r.env.writes <= 1 /\ (CheckFailed(r) => r.env.writes = 0)
    /\ \A caller \in Users, id \in Digests :
           /\ LET r == refund(CurEnv, caller, id)
              IN r.env.writes <= 1 /\ (CheckFailed(r) => r.env.writes = 0)
           /\ get_swap(CurEnv, caller, id).env.writes = 0

\* C14 as amended: withdraw and refund make exactly one storage write and
\* get_swap none; initiate_swap makes two, the Nonce counter and the Swap
\* record; every write comes after all the checks of its entry point.
C14_WritesAfterChecks ==
    /\ \A caller \in Users, p \in Participants, a \in Assets,
          amount \in Amounts, h \in Hashlocks, off \in AllOffsets,
          meta \in EthMeta :
           LET r == initiate_swap(CurEnv, caller, p, a, amount, h, seq + off,
                                  meta)
           IN r.env.writes = IF CheckFailed(r) THEN 0 ELSE 2
    /\ \A caller \in Users, id \in Digests, preimage \in Preimages :
           LET r == withdraw(CurEnv, caller, id, preimage)
           IN r.env.writes = IF CheckFailed(r) THEN 0 ELSE 1
    /\ \A caller \in Users, id \in Digests :
           /\ LET r == refund(CurEnv, caller, id)
              IN r.env.writes = IF CheckFailed(r) THEN 0 ELSE 1
           /\ get_swap(CurEnv, caller, id).env.writes = 0

\* A refund has been refused for its timelock on a stored Open swap, and an
\* initiate_swap has written a nonce and a record before.
C14_Witness ==
    /\ last.op = "refund"
    /\ last.err = "Timelock not expired"
    /\ Open(persistent[last.swap_id])
    /\ NonceGet(instance, CONTRACT) >= 1


\* C15: the initiator a successful initiate_swap records, and the source of
\* its escrow transfer, is the invoking caller; so every stored record's
\* initiator is an invoking identity, not the contract's own address.
C15_InitiatorIsCaller ==
    /\ \A caller \in Users, p \in Participants, a \in Assets,
          amount \in Amounts, h \in Hashlocks, off \in AllOffsets,
          meta \in EthMeta :
           LET r == initiate_swap(CurEnv, caller, p, a, amount, h, seq + off,
                                  meta)
               c == Commit(CurEnv, r)
           IN r.err = None =>
                  /\ c.persistent[h].initiator = caller
                  /\ c.bal[a][caller] = bal[a][caller] - amount
    /\ \A id \in DOMAIN persistent : persistent[id].initiator \in Users

\* C16: the event of a successful initiate_swap is keyed by the swap id and
\* carries initiator, participant, asset, amount, hashlock, timelock and the
\* three ethereum_* fields of the stored order.
C16_InitEventCarriesFullOrder ==
    last.op = "initiate_swap" /\ last.err = None =>
        LET order == persistent[last.swap_id]
        IN /\ Len(events) = 1
           /\ events[1].topics = <<"swap_init", last.swap_id>>
           /\ events[1].data =
                  <<order.initiator, order.participant, order.asset,
                    order.amount, order.hashlock, order.timelock,
                    order.ethereum_destination, order.ethereum_amount,
                    order.ethereum_token>>

\* C17: a successful initiate_swap raises the Nonce counter of the
\* depositor who invoked it by exactly one, no other call changes a
\* counter, and absent counters read 0.
C17_NoncePerDepositor ==
    /\ \A caller \in Users, p \in Participants, a \in Assets,
          amount \in Amounts, h \in Hashlocks, off \in AllOffsets,
          meta \in EthMeta :
           LET r == initiate_swap(CurEnv, caller, p, a, amount, h, seq + off,
                                  meta)
               c == Commit(CurEnv, r)
           IN \A who \in Addresses :
                  NonceGet(c.instance, who) =
                      IF r.err = None /\ who = caller
                      THEN NonceGet(instance, who) + 1
                      ELSE NonceGet(instance, who)
    /\ \A caller \in Users, id \in Digests, preimage \in Preimages :
           /\ Commit(CurEnv, withdraw(CurEnv, caller, id, preimage)).instance
                  = instance
           /\ Commit(CurEnv, refund(CurEnv, caller, id)).instance = instance
           /\ Commit(CurEnv, get_swap(CurEnv, caller, id)).instance = instance


\* C18: after a successful initiate_swap at sequence s with timelock T the
\* record's live-until ledger is at least T + 1000.
C18_RecordOutlivesTimelock ==
    \A caller \in Users, p \in Participants, a \in Assets,
       amount \in Amounts, h \in Hashlocks, off \in AllOffsets,
       meta \in EthMeta :
        LET r == initiate_swap(CurEnv, caller, p, a, amount, h, seq + off,
                               meta)
            c == Commit(CurEnv, r)
        IN r.err = None => c.ttl[h] >= seq + off + 1000

RECURSIVE SumAmounts(_, _)
\* The amounts of the records of store under the ids of S, added up.
SumAmounts(store, S) ==
    IF S = {} THEN 0
    ELSE LET id == CHOOSE x \in S : TRUE
         IN store[id].amount + SumAmounts(store, S \ {id})

\* The escrow owed in asset a: the amounts of its Open swaps.
OpenEscrow(a) ==
    SumAmounts(persistent,
               {id \in DOMAIN persistent :
                    persistent[id].asset = a /\ Open(persistent[id])})

\* C19: for every asset, the contract's balance covers the amounts of all
\* Open swaps in that asset.
C19_CustodySolvent ==
    \A a \in Assets : bal[a][CONTRACT] >= OpenEscrow(a)

\* C20: for every Open swap exactly one of the two time guards holds, and
\* from its timelock on a refund invoked by its initiator succeeds; an Open
\* swap leaves Open only by being withdrawn or refunded, so that none is
\* dropped before it can reach Withdrawn or Refunded.
C20_NoEscrowLockedForever ==
    /\ [](\A id \in DOMAIN persistent :
              LET swap == persistent[id]
              IN Open(swap) =>
                     /\ WithdrawTimeOk(seq, swap) # RefundTimeOk(seq, swap)
                     /\ seq >= swap.timelock =>
                            refund(CurEnv, swap.initiator, id).err = None)
    /\ [][\A id \in DOMAIN persistent :
              Open(persistent[id]) =>
                  persistent'[id] \in
                      {persistent[id],
                       [persistent[id] EXCEPT !.withdrawn = TRUE],
                       [persistent[id] EXCEPT !.refunded = TRUE]}]_vars

====
